---- MODULE Spec2Model ----
(***************************************************************************)
(* LanTube: the indexing pipeline of lib/video-index (ensureIndex,         *)
(* buildIndex, indexSingle, runWithConcurrency) over the SQLite "videos"   *)
(* table and the thumbnail cache, and makeThumbnail's two modes; the batch  *)
(* tool scripts/build-index; initDb of the server and of the tool;         *)
(* resolveSafePath of lib/path-utils; the handlers of /api/video and       *)
(* /api/thumb.  Each part has its own specification over the same state.   *)
(*                                                                         *)
(* Times of the file system (stat.mtimeMs, stat.birthtimeMs) are floating  *)
(* point milliseconds in the code.  They are modelled in HALF milliseconds *)
(* so that Math.floor is a real conversion: Floor(3) = 1 ms, Floor(2) = 1. *)
(* Columns of the table (updatedAt, createdAt) are whole milliseconds.     *)
(*                                                                         *)
(* The external programs (ffprobe, ffmpeg) may fail on every call.  The    *)
(* walk of the tree and the statements on the table are taken to succeed.  *)
(* A process is restarted only after its pass is over; the table, the     *)
(* tree and the thumbnail cache outlive it.                                *)
(***************************************************************************)
EXTENDS Integers, Sequences, FiniteSets, TLC

\* ------------------------------------------------------------------ bounds
MaxCallers == 2     \* callers of ensureIndex in one process
MaxMtime == 4       \* largest mtimeMs, in half milliseconds
MaxFsOps == 1       \* changes made to the tree and the cache from outside
MaxSegs == 3        \* segments of a path given to resolveSafePath
MaxOffset == 3      \* largest number written in a Range header
MaxSize == 2        \* largest file size, in bytes
MaxTasks == 5       \* longest task list given to runWithConcurrency

\* --------------------------------------------------------------- constants
MAX_CONCURRENCY == 2
NULL == -1          \* SQL NULL / JavaScript null in a numeric column
PicksLength == 5

Paths == {"a.mp4", "b.mp4"}
DiscoveryOrder == <<"a.mp4", "b.mp4">>
Callers == 1..MaxCallers
\* a pool of one worker more than the limit
WorkersOneMore == 1..(MAX_CONCURRENCY + 1)
Workers == 1..MAX_CONCURRENCY
Durations == {0, 7}                       \* finite values ffprobe can print
\* what one ffprobe call can give: it throws, or prints something parseFloat
\* reads as NaN ("N/A"), or prints a finite number
ProbeOutputs ==
  {[threw |-> TRUE, finite |-> FALSE, value |-> 0],
   [threw |-> FALSE, finite |-> FALSE, value |-> 0]}
  \cup {[threw |-> FALSE, finite |-> TRUE, value |-> d] : d \in Durations}
ProbeThrows == [threw |-> TRUE, finite |-> FALSE, value |-> 0]

NoThumb == <<>>                           \* thumb column NULL
NoRow == [present |-> FALSE, duration |-> NULL, createdAt |-> NULL,
          thumb |-> NoThumb, updatedAt |-> NULL, thumbError |-> NULL]
NoTask == [rel |-> "", stat |-> [mtimeMs |-> 0, birthtimeMs |-> 0, ctimeMs |-> 0],
           updatedAt |-> 0]
NoAttempt == [made |-> FALSE, probeFailed |-> FALSE, thumbOk |-> FALSE]

VARIABLES
  fs,               \* rel -> [present, mtimeMs, birthtimeMs, ctimeMs]: the video files
  thumbFiles,       \* rels whose thumbnail artifact exists under .thumbs.db/thumbs
  index,            \* rel -> row of table videos (NoRow: no row)
  indexingPromise,  \* "null" | "pending" | "resolved" | "rejected"
  pc,               \* position of buildIndex: "none" | "scan" | "pool" | "done"
  files,            \* result of findVideos in this pass
  existingRows,     \* SELECT ... FROM videos at the start of the pass
  thumbSeen,        \* rels for which fileExists(thumbAbs) answered true
  tasks,            \* the work list of this pass
  queue,            \* runWithConcurrency's queue
  worker,           \* worker -> [st, task]
  attempt,          \* rel -> outcome of the indexSingle call of this pass
  callers,          \* caller -> 0 (not called) or the number of the pass whose promise it got
  passesStarted,    \* buildIndex calls in this process
  writeCount,       \* rel -> upserts in this process
  hadPass,          \* an earlier pass of this behaviour ran to its end
  delta,            \* rel -> what happened to the file since the last pass ended
  pre,              \* delta as it was when this pass scanned
  fsOps,            \* changes made from outside so far
  mt,               \* makeThumbnail: one call in isolation
  rebuild,          \* scripts/build-index: the --rebuild flag of the run
  schema,           \* table videos: "none" | "old" (no thumbError column) | "new"
  sp,               \* resolveSafePath: one call in isolation
  rq,               \* one HTTP request to /api/video or /api/thumb
  pool,             \* runWithConcurrency in isolation: what became of each task
  reads,            \* caller -> what its query after await ensureIndex() found
  eq                \* a run of the batch tool on a copy of the store the server starts on

vars == <<fs, thumbFiles, index, indexingPromise, pc, files, existingRows, thumbSeen,
          tasks, queue, worker, attempt, callers, passesStarted, writeCount, hadPass,
          delta, pre, fsOps, mt, rebuild, schema, sp, rq, pool, reads, eq>>

indexVars == <<fs, thumbFiles, index, indexingPromise, pc, files, existingRows,
               thumbSeen, tasks, queue, worker, attempt, callers, passesStarted,
               writeCount, hadPass, delta, pre, fsOps>>

\* ----------------------------------------------------------------- helpers
\* Math.floor on a time given in half milliseconds: whole milliseconds
Floor(halfMs) == halfMs \div 2

\* getThumbRelPath: path.join("thumbs", sha1(rel)[0..16] + ".jpg"); the hash is
\* modelled as injective on Paths
getThumbRelPath(relPath) == <<"thumbs", relPath>>

\* JavaScript truthiness of a number | null
Truthy(n) == n # NULL /\ n # 0

\* probeDuration: parseFloat of ffprobe's output, null when the call throws or
\* the value is not finite
probeDuration(output) ==
  IF output.threw THEN NULL
  ELSE IF output.finite THEN output.value
  ELSE NULL

\* createdAt = Math.floor(stat.birthtimeMs || stat.ctimeMs || Date.now())
CreatedAt(stat, now) ==
  IF stat.birthtimeMs # 0 THEN Floor(stat.birthtimeMs)
  ELSE IF stat.ctimeMs # 0 THEN Floor(stat.ctimeMs)
  ELSE Floor(now)

\* ---------------------------------------------------------- the videos table
\* INSERT ... ON CONFLICT(path) DO UPDATE SET every column (the try branch)
UpsertSuccess(idx, rel, duration, createdAt, thumbRel, updatedAt) ==
  [idx EXCEPT ![rel] = [present |-> TRUE, duration |-> duration,
                        createdAt |-> createdAt, thumb |-> thumbRel,
                        updatedAt |-> updatedAt, thumbError |-> 0]]

\* the failure upsert with a conflict clause that leaves thumb alone
UpsertFailureKeepsThumb(idx, rel, updatedAt) ==
  IF idx[rel].present
  THEN [idx EXCEPT ![rel] = [@ EXCEPT !.updatedAt = updatedAt, !.thumbError = 1]]
  ELSE [idx EXCEPT ![rel] = [present |-> TRUE, duration |-> NULL,
                             createdAt |-> NULL, thumb |-> NoThumb,
                             updatedAt |-> updatedAt, thumbError |-> 1]]

\* INSERT (.., null, null, null, updatedAt, 1) ON CONFLICT(path) DO UPDATE SET
\* updatedAt, thumbError, thumb (the catch branch): on a conflict duration and
\* createdAt keep the values of the existing row
UpsertFailure(idx, rel, updatedAt) ==
  IF idx[rel].present
  THEN [idx EXCEPT ![rel] = [@ EXCEPT !.updatedAt = updatedAt,
                                      !.thumbError = 1,
                                      !.thumb = NoThumb]]
  ELSE [idx EXCEPT ![rel] = [present |-> TRUE, duration |-> NULL,
                             createdAt |-> NULL, thumb |-> NoThumb,
                             updatedAt |-> updatedAt, thumbError |-> 1]]

\* a reconciliation that deletes nothing
ReconcileKeepsAll(idx, rows, seen) == idx

\* DELETE FROM videos WHERE path = ? for every row of existingRows not in seen
Reconcile(idx, rows, seen) ==
  [p \in Paths |-> IF rows[p].present /\ p \notin seen THEN NoRow ELSE idx[p]]

\* ----------------------------------------------------------------------- db
\* schema: "none" (no table videos), "old" (the table without the column
\* thumbError), "new" (the table with it).  A row of an "old" table has
\* thumbError = NULL.
Schemas == {"none", "old", "new"}

\* initDb of lib/db.ts: CREATE TABLE IF NOT EXISTS without thumbError
initDbLib(sch) == IF sch = "none" THEN "old" ELSE sch

\* initDb of the server with thumbError in CREATE TABLE IF NOT EXISTS; its
\* PRAGMA table_info / ALTER TABLE block is commented out
initDb(sch) == IF sch = "none" THEN "new" ELSE sch

\* initDb(database) of the tool: CREATE TABLE IF NOT EXISTS with thumbError,
\* then ALTER TABLE ... ADD COLUMN thumbError when the column is not there
initDbTool(sch) == "new"

\* ALTER TABLE videos ADD COLUMN thumbError INTEGER DEFAULT 0: every row gets 0
AddColumn(idx) ==
  [p \in Paths |-> IF idx[p].present THEN [idx[p] EXCEPT !.thumbError = 0] ELSE idx[p]]

\* the table after the initDb that takes schema `from` to schema `to`
Migrated(from, to, idx) == IF from = "old" /\ to = "new" THEN AddColumn(idx) ELSE idx

\* SELECT path, updatedAt, thumb, duration, thumbError FROM videos can be prepared
SelectWorks(sch) == sch = "new"

\* -------------------------------------------------------------- buildIndex
\* findVideos: the video files under the root, each with the stat of the scan
findVideos(fsNow) ==
  LET found == SelectSeq(DiscoveryOrder, LAMBDA p : fsNow[p].present)
  IN [i \in 1..Len(found) |->
        [rel |-> found[i],
         stat |-> [mtimeMs |-> fsNow[found[i]].mtimeMs,
                   birthtimeMs |-> fsNow[found[i]].birthtimeMs,
                   ctimeMs |-> fsNow[found[i]].ctimeMs]]]

\* needsUpdate testing duration against null only
NeedsUpdateNullOnly(existing, thumbExists, updatedAt) ==
  LET hasThumbError == existing.present /\ existing.thumbError = 1
  IN \/ ~existing.present
     \/ (~hasThumbError /\ (~thumbExists \/ existing.duration = NULL))
     \/ (IF existing.updatedAt = NULL THEN 0 ELSE existing.updatedAt) < updatedAt

\* needsUpdate without the failure flag: a missing thumbnail is always retried
NeedsUpdateRetryFailures(existing, thumbExists, updatedAt) ==
  \/ ~existing.present
  \/ (~thumbExists \/ ~Truthy(existing.duration))
  \/ (IF existing.updatedAt = NULL THEN 0 ELSE existing.updatedAt) < updatedAt

\* needsUpdate comparing the watermark with <= instead of <
NeedsUpdateNotNewer(existing, thumbExists, updatedAt) ==
  LET hasThumbError == existing.present /\ existing.thumbError = 1
  IN \/ ~existing.present
     \/ (~hasThumbError /\ (~thumbExists \/ ~Truthy(existing.duration)))
     \/ (IF existing.updatedAt = NULL THEN 0 ELSE existing.updatedAt) <= updatedAt

\* needsUpdate of buildIndex; existing = NoRow stands for "no row"
NeedsUpdate(existing, thumbExists, updatedAt) ==
  LET hasThumbError == existing.present /\ existing.thumbError = 1
  IN \/ ~existing.present
     \/ (~hasThumbError /\ (~thumbExists \/ ~Truthy(existing.duration)))
     \/ (IF existing.updatedAt = NULL THEN 0 ELSE existing.updatedAt) < updatedAt

\* the work list with the modification time handed on as it was read
WorkListUnfloored(found, rows, thumbs) ==
  LET need == SelectSeq(found, LAMBDA f :
                NeedsUpdate(rows[f.rel], f.rel \in thumbs, Floor(f.stat.mtimeMs)))
  IN [i \in 1..Len(need) |->
        [rel |-> need[i].rel, stat |-> need[i].stat,
         updatedAt |-> need[i].stat.mtimeMs]]

\* the work list: one task per file that needs an update, in discovery order
WorkList(found, rows, thumbs) ==
  LET need == SelectSeq(found, LAMBDA f :
                NeedsUpdate(rows[f.rel], f.rel \in thumbs, Floor(f.stat.mtimeMs)))
  IN [i \in 1..Len(need) |->
        [rel |-> need[i].rel, stat |-> need[i].stat,
         updatedAt |-> Floor(need[i].stat.mtimeMs)]]

\* indexSingle without its catch block: a failed thumbnail rejects the task
indexSingleNoCatch(idx, task, output, thumbOk, now) ==
  LET duration == probeDuration(output)
  IN IF thumbOk
     THEN [index |-> UpsertSuccess(idx, task.rel, duration, CreatedAt(task.stat, now),
                                   getThumbRelPath(task.rel), task.updatedAt),
           threw |-> FALSE]
     ELSE [index |-> idx, threw |-> TRUE]

\* indexSingle with an empty catch block: a failed attempt writes nothing
indexSingleDropsFailure(idx, task, output, thumbOk, now) ==
  LET duration == probeDuration(output)
  IN IF thumbOk
     THEN [index |-> UpsertSuccess(idx, task.rel, duration, CreatedAt(task.stat, now),
                                   getThumbRelPath(task.rel), task.updatedAt),
           threw |-> FALSE]
     ELSE [index |-> idx, threw |-> FALSE]

\* indexSingle treating a null probe result as a failure of the attempt
indexSingleProbeFatal(idx, task, output, thumbOk, now) ==
  LET duration == probeDuration(output)
  IN IF thumbOk /\ duration # NULL
     THEN [index |-> UpsertSuccess(idx, task.rel, duration, CreatedAt(task.stat, now),
                                   getThumbRelPath(task.rel), task.updatedAt),
           threw |-> FALSE]
     ELSE [index |-> UpsertFailure(idx, task.rel, task.updatedAt),
           threw |-> FALSE]

\* indexSingle: try { probe; makeThumbnail; upsert } catch { failure upsert }.
\* thumbOk: makeThumbnail resolved.  threw: the returned promise rejects.
indexSingle(idx, task, output, thumbOk, now) ==
  LET duration == probeDuration(output)
  IN IF thumbOk
     THEN [index |-> UpsertSuccess(idx, task.rel, duration, CreatedAt(task.stat, now),
                                   getThumbRelPath(task.rel), task.updatedAt),
           threw |-> FALSE]
     ELSE [index |-> UpsertFailure(idx, task.rel, task.updatedAt),
           threw |-> FALSE]

\* ensureIndex forgetting a rejected pass
EnsureStartsRetry(promise) == promise \in {"null", "rejected"}

\* a reader that does not await the promise of ensureIndex
MayQueryAlways(promise) == TRUE
\* await ensureIndex() goes on once the promise has settled
MayQuery(promise) == promise \in {"resolved", "rejected"}

\* ensureIndex without the memo test: every call starts a pass
EnsureStartsAlways(promise) == TRUE

\* ensureIndex: if (!indexingPromise) indexingPromise = buildIndex()
EnsureStarts(promise) == promise = "null"

\* runWithConcurrency up to the first await of every worker: worker w shifts
\* the w-th task and starts it; a worker that finds the queue empty returns
\* only the first worker takes a closure at the call
PoolStartOne(q) ==
  [w \in Workers |-> IF w = 1 /\ Len(q) > 0 THEN [st |-> "run", task |-> q[w]]
                                          ELSE [st |-> "done", task |-> NoTask]]
PoolStart(q) ==
  [w \in Workers |-> IF w <= Len(q) THEN [st |-> "run", task |-> q[w]]
                                    ELSE [st |-> "done", task |-> NoTask]]
\* the queue keeps the closures the workers have taken at the call
PoolRestUnshifted(q) == q
PoolRest(q) ==
  IF Len(q) > MAX_CONCURRENCY THEN SubSeq(q, MAX_CONCURRENCY + 1, Len(q)) ELSE <<>>

\* the promise of buildIndex once no worker runs: Promise.all(workers)
Settled(promise, wk) ==
  IF promise # "pending" THEN promise
  ELSE IF \E w \in Workers : wk[w].st = "failed" THEN "rejected"
  ELSE IF \A w \in Workers : wk[w].st = "done" THEN "resolved"
  ELSE "pending"

PassOver(wk) == \A w \in Workers : wk[w].st # "run"

\* bookkeeping of the file system's history when a pass is over
DeltaAtEnd(d) == [p \in Paths |-> IF d[p] = "during" THEN "other" ELSE "same"]

\* --------------------------------------------------------------- path-utils
\* A path is a sequence of segments.  targetDir is absolute and normalised
\* (config: path.resolve(TARGET_DIRECTORY)); a caller's string is absolute
\* (it begins with "/") or not, and has any segments, "." and ".." among them.
Roots == {<<>>, <<"srv">>, <<"srv", "videos">>}
\* segment names; DotDotNames are those whose text begins with ".."
Names == {"..", ".", "..a", "srv", "videos", "a.mp4"}
DotDotNames == {"..", "..a"}
RECURSIVE SeqsUpTo(_)
SeqsUpTo(n) ==
  IF n = 0 THEN {<<>>}
  ELSE LET shorter == SeqsUpTo(n - 1)
       IN shorter \cup {Append(q, x) : q \in {r \in shorter : Len(r) = n - 1}, x \in Names}
RelPaths == [abs : BOOLEAN, segs : SeqsUpTo(MaxSegs)]

\* normalisation of an absolute path: "." is dropped, ".." removes the segment
\* before it and is dropped at the top
RECURSIVE Normalize(_, _)
Normalize(done, rest) ==
  IF rest = <<>> THEN done
  ELSE LET x == Head(rest)
       IN IF x = "." THEN Normalize(done, Tail(rest))
          ELSE IF x = ".." THEN Normalize(IF done = <<>> THEN done
                                          ELSE SubSeq(done, 1, Len(done) - 1), Tail(rest))
          ELSE Normalize(Append(done, x), Tail(rest))

\* path.join(targetDir, relPath) put in the place of path.resolve: an absolute
\* second argument is appended like any other
resolveAsJoin(dir, relPath) == Normalize(<<>>, dir \o relPath.segs)

\* path.resolve(targetDir, relPath): an absolute second argument replaces the first
resolve(dir, relPath) ==
  IF relPath.abs THEN Normalize(<<>>, relPath.segs)
  ELSE Normalize(<<>>, dir \o relPath.segs)

\* length of the longest common prefix of two paths
RECURSIVE Common(_, _)
Common(a, b) ==
  IF a = <<>> \/ b = <<>> \/ Head(a) # Head(b) THEN 0
  ELSE 1 + Common(Tail(a), Tail(b))

\* path.relative(from, to) of two absolute normalised paths (POSIX): one ".."
\* for each segment of `from` below the common prefix, then the rest of `to`
relative(from, to) ==
  LET c == Common(from, to)
  IN [abs |-> FALSE,
      segs |-> [i \in 1..(Len(from) - c) |-> ".."] \o SubSeq(to, c + 1, Len(to))]

\* rel.startsWith("..")
StartsWithDotDot(rel) == rel.segs # <<>> /\ Head(rel.segs) \in DotDotNames
\* path.isAbsolute(rel)
isAbsolute(rel) == rel.abs

NoPath == [threw |-> FALSE, abs |-> <<>>]
InvalidPath == [threw |-> TRUE, abs |-> <<>>]

\* resolveSafePath without its test
resolveSafePathUnchecked(dir, relPath) == [threw |-> FALSE, abs |-> resolve(dir, relPath)]

\* resolveSafePath(relPath), with targetDir made a parameter
resolveSafePath(dir, relPath) ==
  LET abs == resolve(dir, relPath)
      rel == relative(dir, abs)
  IN IF StartsWithDotDot(rel) \/ isAbsolute(rel) THEN InvalidPath
     ELSE [threw |-> FALSE, abs |-> abs]

SpIdle == [st |-> "idle", dir |-> <<>>, relPath |-> [abs |-> FALSE, segs |-> <<>>],
           result |-> NoPath]

\* ------------------------------------------------------- /api/video, /api/thumb
TargetDir == <<"srv", "videos">>
NaN == -2           \* Number.parseInt gave NaN
IsNaN(x) == x = NaN
\* comparisons of JavaScript numbers: false when either side is NaN
Lt(x, y) == ~IsNaN(x) /\ ~IsNaN(y) /\ x < y
Ge(x, y) == ~IsNaN(x) /\ ~IsNaN(y) /\ x >= y
\* x - y + 1 in JavaScript
Span(x, y) == IF IsNaN(x) \/ IsNaN(y) THEN NaN ELSE x - y + 1

\* the text on one side of the "-" of a Range header: nothing, text with no
\* leading digits ("abc"), digits (n), or digits followed by other text ("1x")
Toks ==
  {[kind |-> "empty", n |-> 0], [kind |-> "text", n |-> 0], [kind |-> "numtext", n |-> 1]}
  \cup {[kind |-> "num", n |-> k] : k \in 0..MaxOffset}
\* the header: absent, or <unit><first>-<second> where the unit is "bytes=",
\* another unit ("items=") or nothing
NoRange == [given |-> FALSE, unit |-> "none", first |-> [kind |-> "empty", n |-> 0],
            second |-> [kind |-> "empty", n |-> 0]]
Ranges ==
  {NoRange} \cup [given : {TRUE}, unit : {"bytes", "other", "none"}, first : Toks, second : Toks]

\* Number.parseInt(str, 10): the leading digits, NaN when there are none
parseInt(tok) == IF tok.kind \in {"num", "numtext"} THEN tok.n ELSE NaN
\* range.replace(/bytes=/, "").split("-"): a unit that is not "bytes=" stays
\* in front of the first part
SplitRange(range) ==
  [startStr |-> IF range.unit = "other" THEN [kind |-> "text", n |-> 0] ELSE range.first,
   endStr |-> range.second]

NoContentRange == [given |-> FALSE, unsat |-> FALSE, start |-> 0, end |-> 0, size |-> 0]
NoResp == [status |-> 0, unhandled |-> FALSE, contentLength |-> NULL,
           contentRange |-> NoContentRange, acceptRanges |-> FALSE, body |-> FALSE]
\* new Response(text, { status })
Respond(status) == [NoResp EXCEPT !.status = status]
\* the handler's promise rejected: the framework answers 500
Unhandled == [NoResp EXCEPT !.status = 500, !.unhandled = TRUE]

\* fs.createReadStream(path, { start, end }) throws when start or end is not an integer
StreamArgsValid(start, end) == ~IsNaN(start) /\ ~IsNaN(end)

\* the test of line 41 with start > fileSize in the place of start >= fileSize
UnsatisfiableOffByOne(start, end, fileSize) ==
  IsNaN(start) \/ Ge(start, fileSize + 1) \/ Lt(end, start)

\* Number.isNaN(start) || start >= fileSize || end < start
Unsatisfiable(start, end, fileSize) ==
  IsNaN(start) \/ Ge(start, fileSize) \/ Lt(end, start)

\* GET of /api/video from the Range header on, for a file of fileSize bytes
VideoResponse(range, fileSize) ==
  IF range.given
  THEN LET parts == SplitRange(range)
           start == parseInt(parts.startStr)
           end == IF parts.endStr.kind # "empty" THEN parseInt(parts.endStr)
                  ELSE fileSize - 1
       IN IF Unsatisfiable(start, end, fileSize)
          THEN [Respond(416) EXCEPT
                  !.contentRange = [given |-> TRUE, unsat |-> TRUE, start |-> 0,
                                    end |-> 0, size |-> fileSize]]
          ELSE IF ~StreamArgsValid(start, end) THEN Unhandled
          ELSE [Respond(206) EXCEPT
                  !.contentRange = [given |-> TRUE, unsat |-> FALSE, start |-> start,
                                    end |-> end, size |-> fileSize],
                  !.acceptRanges = TRUE,
                  !.contentLength = Span(end, start),
                  !.body = TRUE]
  ELSE [Respond(200) EXCEPT !.contentLength = fileSize, !.acceptRanges = TRUE,
                             !.body = TRUE]

\* the query parameter "path": absent, or a string
NoParam == [given |-> FALSE, rel |-> [abs |-> FALSE, segs |-> <<>>]]
Params ==
  {NoParam} \cup
  {[given |-> TRUE, rel |-> r] :
     r \in {[abs |-> FALSE, segs |-> <<>>],
            [abs |-> FALSE, segs |-> <<"a.mp4">>],
            [abs |-> FALSE, segs |-> <<"b.mp4">>],
            [abs |-> FALSE, segs |-> <<"..", "a.mp4">>],
            [abs |-> TRUE, segs |-> <<"srv", "videos", "a.mp4">>]}}
\* !relPath: no parameter, or the empty string
MissingPath(param) == ~param.given \/ (~param.rel.abs /\ param.rel.segs = <<>>)

\* the video file an absolute path names, "" when it names none
FileAt(abs) ==
  IF \E p \in Paths : abs = Append(TargetDir, p)
  THEN CHOOSE p \in Paths : abs = Append(TargetDir, p)
  ELSE ""
\* fs.promises.stat(absPath) finds the file
StatFinds(abs, fsNow) == FileAt(abs) # "" /\ fsNow[FileAt(abs)].present

\* the row SELECT ... WHERE path = ? finds for the string given
RowFor(idx, rel) ==
  IF ~rel.abs /\ Len(rel.segs) = 1 /\ rel.segs[1] \in Paths THEN idx[rel.segs[1]]
  ELSE NoRow

\* getThumbPath that answers for every row
getThumbPathAnyRow(idx, rel) ==
  LET row == RowFor(idx, rel)
  IN [null |-> ~row.present, thumb |-> IF row.present THEN getThumbRelPath(rel.segs[1])
                                        ELSE NoThumb]

\* getThumbPath(relPath) after ensureIndex: null, or the path of the artifact
getThumbPath(idx, rel) ==
  LET row == RowFor(idx, rel)
  IN IF ~row.present \/ row.thumb = NoThumb \/ Truthy(row.thumbError)
     THEN [null |-> TRUE, thumb |-> NoThumb]
     ELSE [null |-> FALSE, thumb |-> row.thumb]

RqIdle == [kind |-> "none", pc |-> "idle", param |-> NoParam, range |-> NoRange,
           fileSize |-> 0, safe |-> NoPath, thumb |-> NoThumb, resp |-> NoResp,
           stream |-> "none", listener |-> FALSE, aborted |-> FALSE, io |-> <<>>]

\* ---------------------------------------------------- runWithConcurrency alone
\* The i-th closure of a task list, and the lists of 0..MaxTasks closures
PoolTask(i) == [NoTask EXCEPT !.rel = "task", !.updatedAt = i]
TaskLists == {[i \in 1..n |-> PoolTask(i)] : n \in 0..MaxTasks}
IdOf(task) == task.updatedAt
\* pool.promise: "null" before the call, then the promise of runWithConcurrency;
\* pool.started[i]: how often closure i was called; pool.settled: the closures
\* whose promise has settled; pool.written: those whose indexSingle wrote its
\* row; pool.hung: the closures whose external program never returns
PoolIdle == [promise |-> "null", tasks |-> <<>>, queue |-> <<>>,
             worker |-> [w \in Workers |-> [st |-> "done", task |-> NoTask]],
             started |-> [i \in 1..MaxTasks |-> 0], settled |-> {}, written |-> {},
             hung |-> {}]
\* closure i is called once more for every worker of wk that runs it
CountStarts(started, wk, who) ==
  [i \in 1..MaxTasks |->
     started[i] + Cardinality({w \in who : wk[w].st = "run" /\ IdOf(wk[w].task) = i})]

\* a reader (getVideosInFolder, getVideoByPath, getThumbPath): st is "none"
\* before its call, "waiting" at await ensureIndex(), "rows" after its SELECT,
\* "threw" when the await threw; at: the promise its ensureIndex call found;
\* pass: the promise when its SELECT ran; rows: the table its SELECT read
NoRead == [st |-> "none", at |-> "null", pass |-> "null",
           rows |-> [p \in Paths |-> NoRow]]
NoReads == [c \in Callers |-> NoRead]

\* the run of the batch tool beside the server: start is the table both
\* started on, outcome what ffprobe and makeThumbnail give for each file
NoOutcome == [output |-> ProbeThrows, thumbOk |-> FALSE]
EqIdle == [pc |-> "none", schema |-> "new", start |-> [p \in Paths |-> NoRow],
           index |-> [p \in Paths |-> NoRow], thumbs |-> {}, files |-> <<>>,
           tasks |-> <<>>, queue |-> <<>>,
           worker |-> [w \in Workers |-> [st |-> "done", task |-> NoTask]],
           outcome |-> [p \in Paths |-> NoOutcome]]

\* ----------------------------------------------------------------- states
MtIdle == [state |-> "idle", duration |-> NULL, smart |-> FALSE,
           cand |-> [i \in 0..(PicksLength - 1) |-> "none"],
           size |-> [i \in 0..(PicksLength - 1) |-> 0],
           tmp |-> {}, unlinkFailed |-> {}, out |-> <<>>]

InitIndex ==
  /\ fs = [p \in Paths |-> [present |-> TRUE, mtimeMs |-> 2,
                              birthtimeMs |-> 3, ctimeMs |-> 3]]
  /\ thumbFiles = {}
  /\ index = [p \in Paths |-> NoRow]
  /\ indexingPromise = "null"
  /\ pc = "none"
  /\ files = <<>>
  /\ existingRows = [p \in Paths |-> NoRow]
  /\ thumbSeen = {}
  /\ tasks = <<>>
  /\ queue = <<>>
  /\ worker = [w \in Workers |-> [st |-> "done", task |-> NoTask]]
  /\ attempt = [p \in Paths |-> NoAttempt]
  /\ callers = [c \in Callers |-> 0]
  /\ passesStarted = 0
  /\ writeCount = [p \in Paths |-> 0]
  /\ hadPass = FALSE
  /\ delta = [p \in Paths |-> "same"]
  /\ pre = [p \in Paths |-> "same"]
  /\ fsOps = 0

\* nothing but the server's indexing runs
InitOthers ==
  /\ rebuild = FALSE
  /\ schema = "new"
  /\ sp = SpIdle
  /\ rq = RqIdle
  /\ pool = PoolIdle
  /\ reads = NoReads
  /\ eq = EqIdle

Init == InitIndex /\ mt = MtIdle /\ InitOthers

\* ---------------------------------------------------------------- actions
\* ensureIndex(): called by getVideosInFolder, getVideoByPath, getThumbPath
EnsureIndex(c) ==
  /\ callers[c] = 0
  /\ \A b \in Callers : b < c => callers[b] # 0
  /\ IF EnsureStarts(indexingPromise)
     THEN /\ indexingPromise' = "pending"
          /\ pc' = "scan"
          /\ passesStarted' = passesStarted + 1
     ELSE UNCHANGED <<indexingPromise, pc, passesStarted>>
  /\ callers' = [callers EXCEPT ![c] = passesStarted']
  /\ UNCHANGED <<fs, thumbFiles, index, files, existingRows, thumbSeen, tasks, queue,
                 worker, attempt, writeCount, hadPass, delta, pre, fsOps, mt, rebuild, schema, sp, rq, pool, reads, eq>>

\* buildIndex from initDb and findVideos to the first await inside
\* runWithConcurrency, the table having been opened with schema `opened`;
\* when the SELECT cannot be prepared buildIndex throws and its promise rejects
ScanWith(opened) ==
  IF ~SelectWorks(opened)
  THEN /\ files' = findVideos(fs)
       /\ indexingPromise' = "rejected"
       /\ pc' = "done"
       /\ delta' = DeltaAtEnd(delta)
       /\ UNCHANGED <<existingRows, thumbSeen, tasks, index, worker, queue>>
  ELSE LET found == findVideos(fs)
           seen == {found[i].rel : i \in 1..Len(found)}
           thumbs == seen \cap thumbFiles
           list == WorkList(found, index, thumbs)
           started == PoolStart(list)
       IN /\ files' = found
          /\ existingRows' = index
          /\ thumbSeen' = thumbs
          /\ tasks' = list
          /\ index' = Reconcile(index, index, seen)
          /\ worker' = started
          /\ queue' = PoolRest(list)
          /\ indexingPromise' = Settled(indexingPromise, started)
          /\ pc' = IF PassOver(started) THEN "done" ELSE "pool"
          /\ delta' = IF PassOver(started) THEN DeltaAtEnd(delta) ELSE delta

\* the server's initDb is that of lib/db.ts or the one with thumbError in its
\* CREATE TABLE, whichever the build has
Scan ==
  /\ pc = "scan"
  /\ \E opened \in {initDb(schema), initDbLib(schema)} :
       /\ schema' = opened
       /\ ScanWith(opened)
  /\ pre' = delta
  /\ attempt' = [p \in Paths |-> NoAttempt]
  /\ UNCHANGED <<fs, thumbFiles, callers, passesStarted, writeCount, hadPass, fsOps,
                 mt, rebuild, sp, rq, pool, reads, eq>>

\* one indexSingle call settles: ffprobe gave `output`, makeThumbnail resolved
\* (thumbOk) or rejected; the record is written and the worker goes on
TaskSettle(w, output, thumbOk) ==
  /\ pc = "pool"
  /\ worker[w].st = "run"
  /\ LET task == worker[w].task
         res == indexSingle(index, task, output, thumbOk, 9)
         next == IF res.threw THEN [st |-> "failed", task |-> NoTask]
                 ELSE IF Len(queue) > 0 THEN [st |-> "run", task |-> Head(queue)]
                 ELSE [st |-> "done", task |-> NoTask]
         wk == [worker EXCEPT ![w] = next]
     IN /\ ~fs[task.rel].present => (output.threw /\ ~thumbOk)
        /\ index' = res.index
        /\ writeCount' = IF res.threw THEN writeCount
                         ELSE [writeCount EXCEPT ![task.rel] = @ + 1]
        /\ thumbFiles' = IF thumbOk THEN thumbFiles \cup {task.rel} ELSE thumbFiles
        /\ attempt' = [attempt EXCEPT ![task.rel] =
                         [made |-> TRUE, probeFailed |-> (output.threw \/ ~output.finite),
                          thumbOk |-> thumbOk]]
        /\ worker' = wk
        /\ queue' = IF ~res.threw /\ Len(queue) > 0 THEN Tail(queue) ELSE queue
        /\ indexingPromise' = Settled(indexingPromise, wk)
        /\ pc' = IF PassOver(wk) THEN "done" ELSE "pool"
        /\ delta' = IF PassOver(wk) THEN DeltaAtEnd(delta) ELSE delta
  /\ UNCHANGED <<fs, files, existingRows, thumbSeen, tasks, callers, passesStarted,
                 hadPass, pre, fsOps, mt, rebuild, schema, sp, rq, pool, reads, eq>>

\* the server process is restarted: module state is lost, files and table stay
Restart ==
  /\ pc = "done"
  /\ hadPass' = TRUE
  /\ indexingPromise' = "null"
  /\ pc' = "none"
  /\ callers' = [c \in Callers |-> 0]
  /\ passesStarted' = 0
  /\ writeCount' = [p \in Paths |-> 0]
  /\ files' = <<>>
  /\ existingRows' = [p \in Paths |-> NoRow]
  /\ thumbSeen' = {}
  /\ tasks' = <<>>
  /\ attempt' = [p \in Paths |-> NoAttempt]
  /\ pre' = [p \in Paths |-> "same"]
  /\ UNCHANGED <<fs, thumbFiles, index, queue, worker, delta, fsOps, mt, rebuild, schema, sp, rq, pool, reads, eq>>

\* ------------------------------------------------- the world outside the code
Noted(p, what) ==
  [delta EXCEPT ![p] = IF pc = "pool" THEN "during"
                       ELSE IF what = "touched" /\ @ \in {"same", "touched"} THEN "touched"
                       ELSE "other"]

\* a video file is written again: its mtime grows by half a millisecond or more
Touch(p, d) ==
  /\ fsOps < MaxFsOps
  /\ fsOps' = fsOps + 1
  /\ fs[p].present
  /\ fs[p].mtimeMs + d <= MaxMtime
  /\ fs' = [fs EXCEPT ![p].mtimeMs = @ + d]
  /\ delta' = Noted(p, "touched")
  /\ UNCHANGED <<thumbFiles, index, indexingPromise, pc, files, existingRows, thumbSeen,
                 tasks, queue, worker, attempt, callers, passesStarted, writeCount,
                 hadPass, pre, mt, rebuild, schema, sp, rq, pool, reads, eq>>

\* a video file is removed from the tree
RemoveFile(p) ==
  /\ fsOps < MaxFsOps
  /\ fsOps' = fsOps + 1
  /\ fs[p].present
  /\ fs' = [fs EXCEPT ![p].present = FALSE]
  /\ delta' = Noted(p, "removed")
  /\ UNCHANGED <<thumbFiles, index, indexingPromise, pc, files, existingRows, thumbSeen,
                 tasks, queue, worker, attempt, callers, passesStarted, writeCount,
                 hadPass, pre, mt, rebuild, schema, sp, rq, pool, reads, eq>>

\* a thumbnail artifact is deleted from the cache area from outside
DeleteThumb(p) ==
  /\ fsOps < MaxFsOps
  /\ fsOps' = fsOps + 1
  /\ p \in thumbFiles
  /\ thumbFiles' = thumbFiles \ {p}
  /\ delta' = Noted(p, "thumb")
  /\ UNCHANGED <<fs, index, indexingPromise, pc, files, existingRows, thumbSeen,
                 tasks, queue, worker, attempt, callers, passesStarted, writeCount,
                 hadPass, pre, mt, rebuild, schema, sp, rq, pool, reads, eq>>

Next ==
  \/ \E c \in Callers : EnsureIndex(c)
  \/ Scan
  \/ \E w \in Workers, o \in ProbeOutputs, t \in BOOLEAN : TaskSettle(w, o, t)
  \/ Restart
  \/ \E p \in Paths, d \in {1, 2} : Touch(p, d)
  \/ \E p \in Paths : RemoveFile(p)
  \/ \E p \in Paths : DeleteThumb(p)

Spec == Init /\ [][Next]_vars

\* ------------------------------------------------------------ makeThumbnail
\* One call makeThumbnail(inputPath, outputPath, duration) in isolation.
\* mt.cand[i]: "run" while the ffmpeg of candidate i runs, then "ok" | "fail";
\* mt.tmp: the candidates whose file outputPath.tmp-i.jpg exists;
\* mt.out: what outputPath holds; mt.unlinkFailed: the candidates whose
\* fs.unlink rejected.
Picks == 0..(PicksLength - 1)
Sizes == {1, 2, 3}

\* const hasDuration = duration && Number.isFinite(duration) && duration > 0
HasDuration(duration) == Truthy(duration) /\ duration > 0

\* the call up to its first await on ffmpeg
MtStart(duration, smart) ==
  IF ~HasDuration(duration) \/ ~smart
  THEN [MtIdle EXCEPT !.state = "fixed", !.duration = duration, !.smart = smart]
  ELSE [MtIdle EXCEPT !.state = "smart", !.duration = duration, !.smart = smart,
                      !.cand = [i \in Picks |-> "run"]]

\* the reduce with >= in the place of >: the last of the largest
RECURSIVE BestLastUpTo(_, _)
BestLastUpTo(size, i) ==
  IF i = 0 THEN 0
  ELSE LET prev == BestLastUpTo(size, i - 1)
       IN IF size[i] >= size[prev] THEN i ELSE prev

BestLast(size) == BestLastUpTo(size, PicksLength - 1)

\* candidates.reduce((prev, current) => current.size > prev.size ? current : prev)
\* over the candidates 0..i
RECURSIVE BestUpTo(_, _)
BestUpTo(size, i) ==
  IF i = 0 THEN 0
  ELSE LET prev == BestUpTo(size, i - 1)
       IN IF size[i] > size[prev] THEN i ELSE prev

Best(size) == BestUpTo(size, PicksLength - 1)

\* Promise.all over the five candidate promises, seen when candidate i settles:
\* it rejects with the first rejection and resolves when all have resolved
AllSettles(state, cand) ==
  IF state # "smart" THEN state
  ELSE IF \E i \in Picks : cand[i] = "fail" THEN "rejected"
  ELSE IF \A i \in Picks : cand[i] = "ok" THEN "resolved"
  ELSE "smart"

InitThumb ==
  /\ InitIndex
  /\ mt \in {MtStart(d, s) : d \in {NULL} \cup Durations, s \in BOOLEAN}
  /\ InitOthers

\* fixed mode: the single ffmpeg call at 00:00:01 settles
MtFixedSettle(ok) ==
  /\ mt.state = "fixed"
  /\ mt' = [mt EXCEPT !.state = IF ok THEN "resolved" ELSE "rejected",
                       !.out = IF ok THEN <<"fixed">> ELSE @]
  /\ UNCHANGED <<indexVars, rebuild, schema, sp, rq, pool, reads, eq>>

\* smart mode: the ffmpeg call (and stat) of candidate i settles; when it is
\* the last one and all resolved, the best candidate is renamed to outputPath
\* and the others are unlinked (an unlink may fail: .catch(() => undefined))
MtCandSettle(i, ok, sz, kept) ==
  /\ mt.state \in {"smart", "rejected"}
  /\ mt.cand[i] = "run"
  /\ LET cand == [mt.cand EXCEPT ![i] = IF ok THEN "ok" ELSE "fail"]
         size == [mt.size EXCEPT ![i] = IF ok THEN sz ELSE @]
         tmp == IF ok THEN mt.tmp \cup {i} ELSE mt.tmp
         state == AllSettles(mt.state, cand)
         best == Best(size)
     IN /\ (state # "resolved") => kept = {}
        /\ kept \subseteq (Picks \ {best})
        /\ mt' = IF state = "resolved"
                 THEN [mt EXCEPT !.cand = cand, !.size = size, !.state = state,
                                 !.out = <<"tmp", best>>, !.tmp = kept,
                                 !.unlinkFailed = kept]
                 ELSE [mt EXCEPT !.cand = cand, !.size = size, !.state = state,
                                 !.tmp = tmp]
  /\ UNCHANGED <<indexVars, rebuild, schema, sp, rq, pool, reads, eq>>

NextThumb ==
  \/ \E ok \in BOOLEAN : MtFixedSettle(ok)
  \/ \E i \in Picks, ok \in BOOLEAN, sz \in Sizes, kept \in SUBSET Picks :
        MtCandSettle(i, ok, sz, kept)

SpecThumb == InitThumb /\ [][NextThumb]_vars

\* ------------------------------------------------------- scripts/build-index
\* The batch tool: each run is one process that scans, reconciles, runs the
\* pool and exits.  indexingPromise stands for the script's top-level await.
\* needsUpdate of the tool without the flag
NeedsUpdateToolNoForce(force, existing, thumbExists, updatedAt) ==
  NeedsUpdate(existing, thumbExists, updatedAt)

\* needsUpdate of the tool: rebuild || !existing || ... || updatedAt newer
NeedsUpdateTool(force, existing, thumbExists, updatedAt) ==
  LET hasThumbError == existing.present /\ existing.thumbError = 1
  IN \/ force
     \/ ~existing.present
     \/ (~hasThumbError /\ (~thumbExists \/ ~Truthy(existing.duration)))
     \/ (IF existing.updatedAt = NULL THEN 0 ELSE existing.updatedAt) < updatedAt

WorkListTool(force, found, rows, thumbs) ==
  LET need == SelectSeq(found, LAMBDA f :
                NeedsUpdateTool(force, rows[f.rel], f.rel \in thumbs,
                                Floor(f.stat.mtimeMs)))
  IN [i \in 1..Len(need) |->
        [rel |-> need[i].rel, stat |-> need[i].stat,
         updatedAt |-> Floor(need[i].stat.mtimeMs)]]

InitTool == InitIndex /\ mt = MtIdle /\ InitOthers

\* the tool is started, with or without --rebuild
ToolStart(force) ==
  /\ pc = "none"
  /\ pc' = "scan"
  /\ indexingPromise' = "pending"
  /\ rebuild' = force
  /\ schema' = initDbTool(schema)
  /\ index' = Migrated(schema, schema', index)
  /\ UNCHANGED <<fs, thumbFiles, files, existingRows, thumbSeen, tasks, queue,
                 worker, attempt, callers, passesStarted, writeCount, hadPass, delta,
                 pre, fsOps, mt, sp, rq, pool, reads, eq>>

\* the script from findVideos to the first await inside runWithConcurrency
ToolScan ==
  /\ pc = "scan"
  /\ LET found == findVideos(fs)
         seen == {found[i].rel : i \in 1..Len(found)}
         thumbs == seen \cap thumbFiles
         list == WorkListTool(rebuild, found, index, thumbs)
         started == PoolStart(list)
     IN /\ files' = found
        /\ existingRows' = index
        /\ thumbSeen' = thumbs
        /\ tasks' = list
        /\ index' = Reconcile(index, index, seen)
        /\ worker' = started
        /\ queue' = PoolRest(list)
        /\ indexingPromise' = Settled(indexingPromise, started)
        /\ pc' = IF PassOver(started) THEN "done" ELSE "pool"
        /\ delta' = IF PassOver(started) THEN DeltaAtEnd(delta) ELSE delta
  /\ pre' = delta
  /\ attempt' = [p \in Paths |-> NoAttempt]
  /\ UNCHANGED <<fs, thumbFiles, callers, passesStarted, writeCount, hadPass, fsOps,
                 mt, rebuild, schema, sp, rq, pool, reads, eq>>

\* one indexSingle call of the tool settles: the same code as the server's
ToolTaskSettle(w, output, thumbOk) == TaskSettle(w, output, thumbOk)

\* the process of the tool exits
ToolExit ==
  /\ pc = "done"
  /\ hadPass' = TRUE
  /\ indexingPromise' = "null"
  /\ pc' = "none"
  /\ rebuild' = FALSE
  /\ writeCount' = [p \in Paths |-> 0]
  /\ files' = <<>>
  /\ existingRows' = [p \in Paths |-> NoRow]
  /\ thumbSeen' = {}
  /\ tasks' = <<>>
  /\ attempt' = [p \in Paths |-> NoAttempt]
  /\ pre' = [p \in Paths |-> "same"]
  /\ UNCHANGED <<fs, thumbFiles, index, queue, worker, delta, fsOps, callers,
                 passesStarted, mt, schema, sp, rq, pool, reads, eq>>

NextTool ==
  \/ \E force \in BOOLEAN : ToolStart(force)
  \/ ToolScan
  \/ \E w \in Workers, o \in ProbeOutputs, t \in BOOLEAN : ToolTaskSettle(w, o, t)
  \/ ToolExit
  \/ \E p \in Paths, d \in {1, 2} : Touch(p, d)
  \/ \E p \in Paths : RemoveFile(p)
  \/ \E p \in Paths : DeleteThumb(p)

SpecTool == InitTool /\ [][NextTool]_vars

\* --------------------------------------------------------- opening the store
\* Server processes and runs of the tool, one process at a time, on a store
\* that is fresh ("none"), was left by a version without thumbError ("old",
\* with the rows that version wrote), or has the column ("new").  A server
\* process is one in which ensureIndex has been called (passesStarted > 0).
OldRows(p) ==
  LET none == [q \in Paths |-> NoRow]
      ok == UpsertSuccess(none, p, 7, 1, getThumbRelPath(p), 1)[p]
  IN {NoRow, [ok EXCEPT !.thumbError = NULL]}

InitDb ==
  /\ schema \in Schemas
  /\ index \in IF schema = "old" THEN {[p \in Paths |-> r[p]] : r \in [Paths -> UNION {OldRows(p) : p \in Paths}]}
               ELSE {[p \in Paths |-> NoRow]}
  /\ \A p \in Paths : index[p].present => index[p].thumb = getThumbRelPath(p)
  /\ thumbFiles = {p \in Paths : index[p].present}
  /\ fs = [p \in Paths |-> [present |-> TRUE, mtimeMs |-> 2,
                              birthtimeMs |-> 3, ctimeMs |-> 3]]
  /\ indexingPromise = "null"
  /\ pc = "none"
  /\ files = <<>>
  /\ existingRows = [p \in Paths |-> NoRow]
  /\ thumbSeen = {}
  /\ tasks = <<>>
  /\ queue = <<>>
  /\ worker = [w \in Workers |-> [st |-> "done", task |-> NoTask]]
  /\ attempt = [p \in Paths |-> NoAttempt]
  /\ callers = [c \in Callers |-> 0]
  /\ passesStarted = 0
  /\ writeCount = [p \in Paths |-> 0]
  /\ hadPass = FALSE
  /\ delta = [p \in Paths |-> "same"]
  /\ pre = [p \in Paths |-> "same"]
  /\ fsOps = 0
  /\ mt = MtIdle
  /\ rebuild = FALSE
  /\ sp = SpIdle
  /\ rq = RqIdle
  /\ pool = PoolIdle
  /\ reads = NoReads
  /\ eq = EqIdle

ServerRuns == passesStarted > 0

NextDb ==
  \/ \E c \in Callers : (pc = "none" \/ ServerRuns) /\ EnsureIndex(c)
  \/ ServerRuns /\ Scan
  \/ \E w \in Workers, o \in ProbeOutputs, t \in BOOLEAN : ServerRuns /\ TaskSettle(w, o, t)
  \/ ServerRuns /\ Restart
  \/ \E force \in BOOLEAN : ToolStart(force)
  \/ ~ServerRuns /\ ToolScan
  \/ \E w \in Workers, o \in ProbeOutputs, t \in BOOLEAN :
        ~ServerRuns /\ ToolTaskSettle(w, o, t)
  \/ ~ServerRuns /\ ToolExit

SpecDb == InitDb /\ [][NextDb]_vars

\* ------------------------------------------------- runWithConcurrency(tasks, limit)
\* One call of runWithConcurrency with limit = MAX_CONCURRENCY on a list of
\* closures () => indexSingle(...).
InitPool ==
  /\ InitIndex
  /\ mt = MtIdle
  /\ rebuild = FALSE
  /\ schema = "new"
  /\ sp = SpIdle
  /\ rq = RqIdle
  /\ reads = NoReads
  /\ eq = EqIdle
  /\ pool \in {[PoolIdle EXCEPT !.tasks = l, !.hung = h] :
                 l \in TaskLists,
                 h \in {x \in SUBSET (1..MaxTasks) : Cardinality(x) <= MAX_CONCURRENCY}}
  /\ pool.hung \subseteq 1..Len(pool.tasks)

\* the promise a closure returns rejects: that of indexSingle for this outcome
\* of ffprobe and makeThumbnail
TaskRejects(output, thumbOk) ==
  indexSingle([p \in Paths |-> NoRow], [NoTask EXCEPT !.rel = "a.mp4"], output,
              thumbOk, 9).threw

\* the call up to the first await of every worker
PoolCall ==
  /\ pool.promise = "null"
  /\ LET started == PoolStart(pool.tasks)
     IN pool' = [pool EXCEPT !.worker = started,
                             !.queue = PoolRest(pool.tasks),
                             !.started = CountStarts(@, started, Workers),
                             !.promise = Settled("pending", started)]
  /\ UNCHANGED <<indexVars, mt, rebuild, schema, sp, rq, reads, eq>>

\* the closure worker w awaits settles; the worker shifts the next one and
\* calls it, returns when the queue is empty, or rejects with its closure
PoolSettle(w, output, thumbOk) ==
  /\ pool.promise # "null"
  /\ pool.worker[w].st = "run"
  /\ IdOf(pool.worker[w].task) \notin pool.hung
  /\ LET id == IdOf(pool.worker[w].task)
         threw == TaskRejects(output, thumbOk)
         next == IF threw THEN [st |-> "failed", task |-> NoTask]
                 ELSE IF Len(pool.queue) > 0 THEN [st |-> "run", task |-> Head(pool.queue)]
                 ELSE [st |-> "done", task |-> NoTask]
         wk == [pool.worker EXCEPT ![w] = next]
     IN pool' = [pool EXCEPT
                   !.worker = wk,
                   !.queue = IF ~threw /\ Len(@) > 0 THEN Tail(@) ELSE @,
                   !.started = CountStarts(@, wk, {w}),
                   !.settled = @ \cup {id},
                   !.written = IF threw THEN @ ELSE @ \cup {id},
                   !.promise = Settled(@, wk)]
  /\ UNCHANGED <<indexVars, mt, rebuild, schema, sp, rq, reads, eq>>

NextPool ==
  \/ PoolCall
  \/ \E w \in Workers, o \in ProbeOutputs, t \in BOOLEAN : PoolSettle(w, o, t)

SpecPool == InitPool /\ [][NextPool]_vars

\* a closure that can settle does settle
LivePool ==
  /\ SpecPool
  /\ WF_vars(PoolCall)
  /\ WF_vars(\E w \in Workers, o \in ProbeOutputs, t \in BOOLEAN : PoolSettle(w, o, t))

\* ---------------------------------------------------------- resolveSafePath
\* One call resolveSafePath(relPath) of a process whose targetDir is sp.dir.
InitPath ==
  /\ InitIndex
  /\ mt = MtIdle
  /\ rebuild = FALSE
  /\ schema = "new"
  /\ rq = RqIdle
  /\ pool = PoolIdle
  /\ reads = NoReads
  /\ eq = EqIdle
  /\ sp \in {[SpIdle EXCEPT !.st = "called", !.dir = d, !.relPath = r] :
               d \in Roots, r \in RelPaths}

ResolveSafePath ==
  /\ sp.st = "called"
  /\ sp' = [sp EXCEPT !.st = "over", !.result = resolveSafePath(sp.dir, sp.relPath)]
  /\ UNCHANGED <<indexVars, mt, rebuild, schema, rq, pool, reads, eq>>

NextPath == ResolveSafePath

SpecPath == InitPath /\ [][NextPath]_vars

\* ------------------------------------------------------------------ requests
\* One request to /api/video or /api/thumb of a server whose indexing pass is
\* over, with the tree, the table and the cache as the request finds them.
\* rq.pc is the await the handler stands at; rq.stream is the fs.ReadStream
\* ("open" until it has been read to its end or destroyed); rq.listener says
\* the abort listener is registered on request.signal; what the framework
\* does with a response after the client has gone is not part of this code.
Rows(p) ==
  LET none == [q \in Paths |-> NoRow]
      ok == UpsertSuccess(none, p, 7, 1, getThumbRelPath(p), 1)
  IN {NoRow, ok[p], UpsertFailure(none, p, 1)[p], UpsertFailure(ok, p, 2)[p]}

VideoRequests ==
  {[RqIdle EXCEPT !.kind = "video", !.pc = "start", !.param = pa, !.range = ra,
                  !.fileSize = sz] : pa \in Params, ra \in Ranges, sz \in 0..MaxSize}
ThumbRequests ==
  {[RqIdle EXCEPT !.kind = "thumb", !.pc = "start", !.param = pa, !.fileSize = 1] :
     pa \in Params}

InitHttp ==
  /\ fs \in {[p \in Paths |-> [present |-> (p # "a.mp4" \/ there), mtimeMs |-> 2,
                                birthtimeMs |-> 3, ctimeMs |-> 3]] : there \in BOOLEAN}
  /\ rq \in VideoRequests \cup ThumbRequests
  /\ index \in {[p \in Paths |->
                   IF p = "a.mp4" THEN r
                   ELSE UpsertSuccess([q \in Paths |-> NoRow], p, 7, 1,
                                      getThumbRelPath(p), 1)[p]] :
                  r \in IF rq.kind = "thumb" THEN Rows("a.mp4") ELSE {NoRow}}
  /\ thumbFiles \in IF rq.kind = "thumb" THEN {{"b.mp4"}, {"a.mp4", "b.mp4"}}
                    ELSE {{"b.mp4"}}
  /\ indexingPromise = "resolved"
  /\ pc = "done"
  /\ files = <<>>
  /\ existingRows = [p \in Paths |-> NoRow]
  /\ thumbSeen = {}
  /\ tasks = <<>>
  /\ queue = <<>>
  /\ worker = [w \in Workers |-> [st |-> "done", task |-> NoTask]]
  /\ attempt = [p \in Paths |-> NoAttempt]
  /\ callers = [c \in Callers |-> 0]
  /\ passesStarted = 1
  /\ writeCount = [p \in Paths |-> 0]
  /\ hadPass = FALSE
  /\ delta = [p \in Paths |-> "same"]
  /\ pre = [p \in Paths |-> "same"]
  /\ fsOps = 0
  /\ mt = MtIdle
  /\ rebuild = FALSE
  /\ schema = "new"
  /\ sp = SpIdle
  /\ pool = PoolIdle
  /\ reads = NoReads
  /\ eq = EqIdle

\* the handler from its call to its first await: the parameter and resolveSafePath
\* the handler without its two early returns
ValidateNothing(r, next) ==
  [r EXCEPT !.pc = next, !.safe = resolveSafePath(TargetDir, r.param.rel)]
Validate(r, next) ==
  LET safe == resolveSafePath(TargetDir, r.param.rel)
  IN IF MissingPath(r.param) THEN [r EXCEPT !.pc = "done", !.resp = Respond(400)]
     ELSE IF safe.threw THEN [r EXCEPT !.pc = "done", !.resp = Respond(400), !.safe = safe]
     ELSE [r EXCEPT !.pc = next, !.safe = safe]

\* createStreamResponse(request, stream, init): the listener is registered on
\* request.signal; a signal that has aborted already does not call it
createStreamResponse(r, init) ==
  [r EXCEPT !.pc = "done", !.resp = init, !.stream = "open", !.listener = TRUE]

\* a handler that goes on issues its next access to the file system or the Index
Issue(r, access) == IF r.pc = "done" THEN r ELSE [r EXCEPT !.io = Append(@, access)]

VideoStart ==
  /\ rq.kind = "video"
  /\ rq.pc = "start"
  /\ rq' = Issue(Validate(rq, "stat"), "stat")
  /\ UNCHANGED <<indexVars, mt, rebuild, schema, sp, pool, reads, eq>>

\* await fs.promises.stat(absPath) settles and the handler runs to its end
VideoStat ==
  /\ rq.kind = "video"
  /\ rq.pc = "stat"
  /\ LET resp == VideoResponse(rq.range, rq.fileSize)
     IN rq' = IF ~StatFinds(rq.safe.abs, fs)
              THEN [rq EXCEPT !.pc = "done", !.resp = Unhandled]
              ELSE IF resp.body
                THEN createStreamResponse([rq EXCEPT !.io = Append(@, "createReadStream")], resp)
              ELSE [rq EXCEPT !.pc = "done", !.resp = resp]
  /\ UNCHANGED <<indexVars, mt, rebuild, schema, sp, pool, reads, eq>>

ThumbStart ==
  /\ rq.kind = "thumb"
  /\ rq.pc = "start"
  /\ rq' = Issue(Validate(rq, "lookup"), "ensureIndex")
  /\ UNCHANGED <<indexVars, mt, rebuild, schema, sp, pool, reads, eq>>

\* await getThumbPath(relPath) settles
ThumbLookup ==
  /\ rq.kind = "thumb"
  /\ rq.pc = "lookup"
  /\ indexingPromise = "resolved"
  /\ LET thumbPath == getThumbPath(index, rq.param.rel)
     IN rq' = IF thumbPath.null
              THEN [rq EXCEPT !.pc = "done", !.resp = Respond(404), !.io = Append(@, "select")]
              ELSE [rq EXCEPT !.pc = "thumbstat", !.thumb = thumbPath.thumb,
                              !.io = @ \o <<"select", "stat">>]
  /\ UNCHANGED <<indexVars, mt, rebuild, schema, sp, pool, reads, eq>>

\* await fs.promises.stat(thumbPath) settles and the handler runs to its end:
\* no listener is registered on request.signal
ThumbStat ==
  /\ rq.kind = "thumb"
  /\ rq.pc = "thumbstat"
  /\ rq' = IF rq.thumb[2] \notin thumbFiles
           THEN [rq EXCEPT !.pc = "done", !.resp = Unhandled]
           ELSE [rq EXCEPT !.pc = "done", !.stream = "open",
                           !.io = Append(@, "createReadStream"),
                           !.resp = [Respond(200) EXCEPT !.contentLength = rq.fileSize,
                                                         !.body = TRUE]]
  /\ UNCHANGED <<indexVars, mt, rebuild, schema, sp, pool, reads, eq>>

\* the client goes away: request.signal aborts and calls the listeners it has
Abort ==
  /\ rq.pc # "idle"
  /\ ~rq.aborted
  /\ rq' = [rq EXCEPT !.aborted = TRUE,
                      !.stream = IF rq.listener /\ @ = "open" THEN "destroyed" ELSE @]
  /\ UNCHANGED <<indexVars, mt, rebuild, schema, sp, pool, reads, eq>>

\* the client has read the body to its end: the stream closes its file
StreamEnd ==
  /\ rq.stream = "open"
  /\ ~rq.aborted
  /\ rq' = [rq EXCEPT !.stream = "ended"]
  /\ UNCHANGED <<indexVars, mt, rebuild, schema, sp, pool, reads, eq>>

NextHttp ==
  \/ VideoStart
  \/ VideoStat
  \/ ThumbStart
  \/ ThumbLookup
  \/ ThumbStat
  \/ Abort
  \/ StreamEnd

SpecHttp == InitHttp /\ [][NextHttp]_vars

\* the event loop runs every continuation that is ready, and a client that
\* stays reads to the end
LiveHttp ==
  /\ SpecHttp
  /\ WF_vars(VideoStart) /\ WF_vars(VideoStat)
  /\ WF_vars(ThumbStart) /\ WF_vars(ThumbLookup) /\ WF_vars(ThumbStat)
  /\ WF_vars(StreamEnd)

\* ---------------------------------------------------- one server process
\* The readers of one server process over its whole life: the process is
\* never restarted and the batch tool does not run.  It starts on a store of
\* any schema; a store with the thumbError column holds the rows earlier
\* processes have left, and a.mp4 may have been removed since.
InitLife ==
  /\ schema \in Schemas
  /\ index \in IF schema = "old"
                THEN [Paths -> UNION {OldRows(p) : p \in Paths}]
                ELSE IF schema = "new" THEN [Paths -> UNION {Rows(p) : p \in Paths}]
                ELSE {[p \in Paths |-> NoRow]}
  /\ \A p \in Paths : index[p] \in Rows(p) \cup OldRows(p)
  /\ thumbFiles = {p \in Paths : index[p].thumb # NoThumb}
  /\ fs \in {[p \in Paths |-> [present |-> (p # "a.mp4" \/ there), mtimeMs |-> 2,
                                birthtimeMs |-> 3, ctimeMs |-> 3]] : there \in BOOLEAN}
  /\ indexingPromise = "null"
  /\ pc = "none"
  /\ files = <<>>
  /\ existingRows = [p \in Paths |-> NoRow]
  /\ thumbSeen = {}
  /\ tasks = <<>>
  /\ queue = <<>>
  /\ worker = [w \in Workers |-> [st |-> "done", task |-> NoTask]]
  /\ attempt = [p \in Paths |-> NoAttempt]
  /\ callers = [c \in Callers |-> 0]
  /\ passesStarted = 0
  /\ writeCount = [p \in Paths |-> 0]
  /\ hadPass = FALSE
  /\ delta = [p \in Paths |-> "same"]
  /\ pre = [p \in Paths |-> "same"]
  /\ fsOps = 0
  /\ mt = MtIdle
  /\ rebuild = FALSE
  /\ sp = SpIdle
  /\ rq = RqIdle
  /\ pool = PoolIdle
  /\ reads = NoReads
  /\ eq = EqIdle

\* getVideosInFolder / getVideoByPath / getThumbPath up to await ensureIndex()
ReaderCall(c) ==
  /\ callers[c] = 0
  /\ \A b \in Callers : b < c => callers[b] # 0
  /\ IF EnsureStarts(indexingPromise)
     THEN /\ indexingPromise' = "pending"
          /\ pc' = "scan"
          /\ passesStarted' = passesStarted + 1
     ELSE UNCHANGED <<indexingPromise, pc, passesStarted>>
  /\ callers' = [callers EXCEPT ![c] = passesStarted']
  /\ reads' = [reads EXCEPT ![c] = [@ EXCEPT !.st = "waiting", !.at = indexingPromise]]
  /\ UNCHANGED <<fs, thumbFiles, index, files, existingRows, thumbSeen, tasks, queue,
                 worker, attempt, writeCount, hadPass, delta, pre, fsOps, mt, rebuild,
                 schema, sp, rq, pool, eq>>

\* the reader after its await: getDb() and the SELECT, or the rejection thrown
ReaderResume(c) ==
  /\ reads[c].st = "waiting"
  /\ MayQuery(indexingPromise)
  /\ reads' = [reads EXCEPT ![c] =
                 IF indexingPromise = "rejected"
                 THEN [@ EXCEPT !.st = "threw", !.pass = indexingPromise]
                 ELSE [@ EXCEPT !.st = "rows", !.pass = indexingPromise, !.rows = index]]
  /\ UNCHANGED <<indexVars, mt, rebuild, schema, sp, rq, pool, eq>>

NextLife ==
  \/ \E c \in Callers : ReaderCall(c)
  \/ \E c \in Callers : ReaderResume(c)
  \/ Scan
  \/ \E w \in Workers, o \in ProbeOutputs, t \in BOOLEAN : TaskSettle(w, o, t)
  \/ \E p \in Paths, d \in {1, 2} : Touch(p, d)
  \/ \E p \in Paths : RemoveFile(p)
  \/ \E p \in Paths : DeleteThumb(p)

SpecLife == InitLife /\ [][NextLife]_vars

\* ------------------------------------------- the batch tool beside the server
\* The server's pass and a run of the batch tool without --rebuild, each on
\* its own copy of one store and one tree: the store has any schema and holds
\* the rows earlier runs have left, the tree does not change, and ffprobe and
\* makeThumbnail give the same outcome for a file in both runs.  The two runs
\* do not touch each other, so the tool is run when the server's pass is over.
InitEq ==
  /\ schema \in Schemas
  /\ index \in IF schema = "old"
                THEN [Paths -> UNION {OldRows(p) : p \in Paths}]
                ELSE IF schema = "new" THEN [Paths -> UNION {Rows(p) : p \in Paths}]
                ELSE {[p \in Paths |-> NoRow]}
  /\ \A p \in Paths : index[p] \in Rows(p) \cup OldRows(p)
  /\ thumbFiles \in SUBSET {p \in Paths : index[p].thumb # NoThumb}
  /\ fs \in {[p \in Paths |-> [present |-> (p # "a.mp4" \/ there), mtimeMs |-> m[p],
                                birthtimeMs |-> 3, ctimeMs |-> 3]] :
               there \in BOOLEAN, m \in [Paths -> {2, MaxMtime}]}
  /\ indexingPromise = "null"
  /\ pc = "none"
  /\ files = <<>>
  /\ existingRows = [p \in Paths |-> NoRow]
  /\ thumbSeen = {}
  /\ tasks = <<>>
  /\ queue = <<>>
  /\ worker = [w \in Workers |-> [st |-> "done", task |-> NoTask]]
  /\ attempt = [p \in Paths |-> NoAttempt]
  /\ callers = [c \in Callers |-> 0]
  /\ passesStarted = 0
  /\ writeCount = [p \in Paths |-> 0]
  /\ hadPass = FALSE
  /\ delta = [p \in Paths |-> "same"]
  /\ pre = [p \in Paths |-> "same"]
  /\ fsOps = 0
  /\ mt = MtIdle
  /\ rebuild = FALSE
  /\ sp = SpIdle
  /\ rq = RqIdle
  /\ pool = PoolIdle
  /\ reads = NoReads
  /\ eq \in {[EqIdle EXCEPT !.schema = schema, !.start = index, !.index = index,
                            !.thumbs = thumbFiles, !.outcome = o] :
               o \in [Paths -> [output : ProbeOutputs, thumbOk : BOOLEAN]]}

\* one indexSingle call of the server settles with the outcome of its file
EqTaskSettle(w) ==
  /\ worker[w].st = "run"
  /\ TaskSettle(w, eq.outcome[worker[w].task.rel].output,
                eq.outcome[worker[w].task.rel].thumbOk)

\* the tool is started without --rebuild: mkdir, new DatabaseSync, initDb(db)
EqToolStart ==
  /\ pc = "done"
  /\ eq.pc = "none"
  /\ eq' = [eq EXCEPT !.pc = "scan",
                      !.schema = initDbTool(@),
                      !.index = Migrated(eq.schema, initDbTool(eq.schema), @)]
  /\ UNCHANGED <<indexVars, mt, rebuild, schema, sp, rq, pool, reads>>

\* the script from findVideos to the first await inside runWithConcurrency
EqToolScan ==
  /\ eq.pc = "scan"
  /\ LET found == findVideos(fs)
         seen == {found[i].rel : i \in 1..Len(found)}
         thumbs == seen \cap eq.thumbs
         list == WorkListTool(FALSE, found, eq.index, thumbs)
         started == PoolStart(list)
     IN eq' = [eq EXCEPT !.files = found,
                         !.tasks = list,
                         !.index = Reconcile(@, @, seen),
                         !.worker = started,
                         !.queue = PoolRest(list),
                         !.pc = IF PassOver(started) THEN "done" ELSE "pool"]
  /\ UNCHANGED <<indexVars, mt, rebuild, schema, sp, rq, pool, reads>>

\* one indexSingle call of the tool settles with the outcome of its file
EqToolSettle(w) ==
  /\ eq.pc = "pool"
  /\ eq.worker[w].st = "run"
  /\ LET task == eq.worker[w].task
         res == indexSingle(eq.index, task, eq.outcome[task.rel].output,
                            eq.outcome[task.rel].thumbOk, 9)
         next == IF res.threw THEN [st |-> "failed", task |-> NoTask]
                 ELSE IF Len(eq.queue) > 0 THEN [st |-> "run", task |-> Head(eq.queue)]
                 ELSE [st |-> "done", task |-> NoTask]
         wk == [eq.worker EXCEPT ![w] = next]
     IN eq' = [eq EXCEPT !.index = res.index,
                         !.thumbs = IF eq.outcome[task.rel].thumbOk
                                    THEN @ \cup {task.rel} ELSE @,
                         !.worker = wk,
                         !.queue = IF ~res.threw /\ Len(@) > 0 THEN Tail(@) ELSE @,
                         !.pc = IF PassOver(wk) THEN "done" ELSE "pool"]
  /\ UNCHANGED <<indexVars, mt, rebuild, schema, sp, rq, pool, reads>>

NextEq ==
  \/ EnsureIndex(1)
  \/ Scan
  \/ \E w \in Workers : EqTaskSettle(w)
  \/ EqToolStart
  \/ EqToolScan
  \/ \E w \in Workers : EqToolSettle(w)

SpecEq == InitEq /\ [][NextEq]_vars

\* ================================================================== claims
Seen == {files[i].rel : i \in 1..Len(files)}
Scheduled == {tasks[i].rel : i \in 1..Len(tasks)}
Scanned == pc \in {"pool", "done"}
\* the stat of the scan for a file of Seen
StatOf(p) == (CHOOSE i \in 1..Len(files) : files[i].rel = p)
MtimeSeen(p) == files[StatOf(p)].stat.mtimeMs
\* a time in half milliseconds exceeds a whole millisecond value
Exceeds(halfMs, ms) == halfMs > 2 * ms
\* a complete pass came before this one and the tree and the cache are as it left them
QuietSince == hadPass /\ \A p \in Paths : pre[p] = "same"
\* a discovered file whose row has no failure flag and lacks its thumbnail
\* artifact or has a falsy duration (null or 0)
Unfinished(p) ==
  /\ existingRows[p].present
  /\ existingRows[p].thumbError # 1
  /\ (p \notin thumbSeen \/ existingRows[p].duration \in {NULL, 0})

\* C1: single-flight.  However many callers call ensureIndex in one process,
\* buildIndex is started once, every caller holds the promise of that one
\* pass, and no path is upserted twice.
C1_SingleFlight ==
  /\ passesStarted <= 1
  /\ \A c \in Callers : callers[c] # 0 => callers[c] = 1
  /\ \A p \in Paths : writeCount[p] <= 1

C1_Witness ==
  /\ indexingPromise = "pending"
  /\ \A c \in Callers : callers[c] = 1
  /\ \E p \in Paths : writeCount[p] = 1

\* C2: in every state of the table a row with thumbError = 1 has duration,
\* createdAt and thumb all NULL.
C2_FailureWipesDerived ==
  \A p \in Paths :
    (index[p].present /\ index[p].thumbError = 1)
      => /\ index[p].duration = NULL
         /\ index[p].createdAt = NULL
         /\ index[p].thumb = NoThumb

\* C3 as stated: a discovered file is on the work list iff it has no row, or
\* its mtime exceeds the stored updatedAt, or the row has no failure flag and
\* (the thumbnail is missing or duration is null).
C3_AsStated ==
  Scanned =>
    \A p \in Seen :
      LET e == existingRows[p]
      IN (p \in Scheduled) <=>
           \/ ~e.present
           \/ Exceeds(MtimeSeen(p), e.updatedAt)
           \/ (e.thumbError # 1 /\ (p \notin thumbSeen \/ e.duration = NULL))

\* C3 amended: a discovered file is on the work list iff it has no row, or
\* the floor of its mtime exceeds the stored updatedAt, or the row has no
\* failure flag and (the thumbnail is missing or duration is null or 0).
C3_NeedsIndexing ==
  Scanned =>
    \A p \in Seen :
      LET e == existingRows[p]
      IN (p \in Scheduled) <=>
           \/ ~e.present
           \/ Floor(MtimeSeen(p)) > e.updatedAt
           \/ (e.thumbError # 1 /\ (p \notin thumbSeen \/ e.duration \in {NULL, 0}))

C3_Witness ==
  /\ Scanned
  /\ \E p \in Seen :
       /\ p \in Scheduled
       /\ existingRows[p].present
       /\ existingRows[p].thumbError = 0
       /\ existingRows[p].duration = 0
       /\ p \in thumbSeen
       /\ Floor(MtimeSeen(p)) <= existingRows[p].updatedAt
  /\ \E q \in Seen : q \notin Scheduled

C5_AsStated ==
  Scanned =>
    \A p \in Seen :
      (existingRows[p].present /\ existingRows[p].thumbError = 1) =>
         /\ ~Exceeds(MtimeSeen(p), existingRows[p].updatedAt) => p \notin Scheduled
         /\ (hadPass /\ pre[p] = "touched") => p \in Scheduled

\* C5 amended: a file whose row has thumbError = 1 is scheduled iff the floor
\* of its mtime exceeds the stored updatedAt, whether or not its thumbnail
\* exists.
C5_FailurePersistence ==
  Scanned =>
    \A p \in Seen :
      (existingRows[p].present /\ existingRows[p].thumbError = 1) =>
         ((p \in Scheduled) <=> Floor(MtimeSeen(p)) > existingRows[p].updatedAt)

C5_Witness ==
  /\ Scanned
  /\ \E p \in Seen :
       /\ existingRows[p].present
       /\ existingRows[p].thumbError = 1
       /\ p \notin thumbSeen
       /\ p \notin Scheduled

C7_AsStated ==
  (Scanned /\ hadPass) =>
    \A p \in Paths :
      (pre[p] = "touched" /\ \A q \in Paths \ {p} : pre[q] = "same")
         => Scheduled = {p}

\* C7 amended: in that case the next pass schedules the touched file iff the
\* floor of its mtime exceeds the stored updatedAt, and besides it only files
\* whose row has no failure flag and a null or zero duration (or no thumbnail
\* artifact).
C7_Staleness ==
  (Scanned /\ hadPass) =>
    \A p \in Paths :
      (pre[p] = "touched" /\ \A q \in Paths \ {p} : pre[q] = "same")
         => Scheduled =
              {q \in Seen : \/ q = p /\ Floor(MtimeSeen(q)) > existingRows[q].updatedAt
                            \/ Unfinished(q)}

C7_Witness ==
  /\ Scanned /\ hadPass
  /\ Seen = Paths
  /\ \E p \in Paths :
       /\ pre[p] = "touched"
       /\ \A q \in Paths \ {p} : pre[q] = "same"
       /\ Scheduled = {p}

\* C8: once a pass has reconciled, the table holds no row of a path that
\* discovery did not observe, every such row of the starting snapshot is
\* gone, and no row of a discovered file was deleted.
C8_Reconciliation ==
  Scanned =>
    \A p \in Paths :
      /\ index[p].present => p \in Seen
      /\ (existingRows[p].present /\ p \notin Seen) => ~index[p].present
      /\ (existingRows[p].present /\ p \in Seen) => index[p].present

C8_Witness ==
  /\ pc = "done"
  /\ \E p \in Paths : existingRows[p].present /\ p \notin Seen /\ ~index[p].present
  /\ \E q \in Paths : existingRows[q].present /\ q \in Seen /\ index[q].present

\* C9: when makeThumbnail fails for some of the scheduled files, each of them
\* gets a failure row, every other scheduled file gets its own row, and the
\* pass resolves: the promise of ensureIndex never rejects.
C9_FailureIsolation ==
  /\ indexingPromise # "rejected"
  /\ pc = "done" =>
       /\ indexingPromise = "resolved"
       /\ \A i \in 1..Len(tasks) :
            LET p == tasks[i].rel
            IN /\ attempt[p].made
               /\ index[p].present
               /\ index[p].updatedAt = tasks[i].updatedAt
               /\ index[p].thumbError = (IF attempt[p].thumbOk THEN 0 ELSE 1)

C9_Witness ==
  /\ pc = "done"
  /\ indexingPromise = "resolved"
  /\ \E p, q \in Scheduled :
       /\ attempt[p].made /\ ~attempt[p].thumbOk /\ index[p].thumbError = 1
       /\ attempt[q].made /\ attempt[q].thumbOk /\ index[q].thumbError = 0

\* C10: in smart mode, when some but not all of the five candidate
\* extractions fail, makeThumbnail resolves and installs the largest of the
\* candidates that succeeded.
C10_PartialFailureSucceeds ==
  LET ok == {i \in Picks : mt.cand[i] = "ok"}
      failed == {i \in Picks : mt.cand[i] = "fail"}
  IN (ok \cup failed = Picks /\ ok # {} /\ failed # {}) =>
       /\ mt.state = "resolved"
       /\ \E b \in ok : /\ mt.out = <<"tmp", b>>
                         /\ \A i \in ok : mt.size[i] <= mt.size[b]

\* C11 as stated: in smart mode, when all five candidates succeeded, the
\* installed thumbnail is the largest candidate, the lowest index among the
\* largest, and no temporary file of the other four is left.
C11_AsStated ==
  (mt.state = "resolved" /\ \A i \in Picks : mt.cand[i] = "ok") =>
    /\ \E b \in Picks :
         /\ mt.out = <<"tmp", b>>
         /\ \A i \in Picks : mt.size[i] <= mt.size[b]
         /\ \A j \in Picks : j < b => mt.size[j] < mt.size[b]
    /\ mt.tmp = {}

\* C11 amended: in smart mode, when all five candidates succeeded, the
\* installed thumbnail is the largest candidate, the lowest index among the
\* largest; the temporary file of the selected candidate is gone (renamed),
\* and of the other four exactly those are left whose unlink failed.
C11_SmartSelection ==
  (mt.state = "resolved" /\ \A i \in Picks : mt.cand[i] = "ok") =>
    \E b \in Picks :
      /\ mt.out = <<"tmp", b>>
      /\ \A i \in Picks : mt.size[i] <= mt.size[b]
      /\ \A j \in Picks : j < b => mt.size[j] < mt.size[b]
      /\ b \notin mt.tmp
      /\ mt.tmp = mt.unlinkFailed

\* five candidates succeeded, two of them share the largest size, the first
\* of the two is installed and every unlink succeeded
C11_Witness ==
  /\ mt.state = "resolved"
  /\ \A i \in Picks : mt.cand[i] = "ok"
  /\ mt.size[1] = 3 /\ mt.size[3] = 3 /\ mt.size[0] < 3
  /\ mt.out = <<"tmp", 1>>
  /\ mt.tmp = {}

\* a request whose path passed resolveSafePath and whose file stat found
Decided ==
  /\ rq.pc = "done"
  /\ ~MissingPath(rq.param)
  /\ ~rq.safe.threw
  /\ StatFinds(rq.safe.abs, fs)

\* C12: the Range decision of /api/video for a file of size bytes.  Without a
\* Range header: 200, Content-Length = size, Accept-Ranges.  With
\* bytes=start-end (end defaulting to size - 1): 416 and Content-Range
\* "bytes */size" unless 0 <= start < size and start <= end, and otherwise 206
\* with Content-Range "bytes start-end/size" and Content-Length end - start + 1.
C12_RangeDecision ==
  (rq.kind = "video" /\ Decided) =>
    LET size == rq.fileSize
        r == rq.range
        start == r.first.n
        end == IF r.second.kind = "empty" THEN size - 1 ELSE r.second.n
    IN /\ ~r.given =>
            /\ rq.resp.status = 200
            /\ rq.resp.contentLength = size
            /\ rq.resp.acceptRanges
       /\ (r.given /\ r.unit = "bytes" /\ r.first.kind = "num"
             /\ r.second.kind \in {"num", "empty"}) =>
            IF ~(0 <= start /\ start < size /\ start <= end)
            THEN /\ rq.resp.status = 416
                 /\ rq.resp.contentRange.unsat
                 /\ rq.resp.contentRange.size = size
            ELSE /\ rq.resp.status = 206
                 /\ rq.resp.contentRange =
                      [given |-> TRUE, unsat |-> FALSE, start |-> start, end |-> end,
                       size |-> size]
                 /\ rq.resp.contentLength = end - start + 1

\* bytes=1-1 of a file of 2 bytes is answered 206 with one byte
C12_Witness ==
  /\ rq.kind = "video" /\ Decided
  /\ rq.range.given /\ rq.range.unit = "bytes"
  /\ rq.range.first = [kind |-> "num", n |-> 1]
  /\ rq.range.second = [kind |-> "num", n |-> 1]
  /\ rq.fileSize = 2
  /\ rq.resp.status = 206
  /\ rq.resp.contentLength = 1

\* a Range header with a unit that is not bytes=<digits>-[<digits>]: another
\* unit, no start, or a start or an end that is not a number
Malformed(r) ==
  /\ r.given
  /\ \/ r.unit = "other"
     \/ /\ r.unit = "bytes"
        /\ (r.first.kind # "num" \/ r.second.kind \in {"text", "numtext"})

\* C13: every malformed Range header (a start or an end that is not a number,
\* no start, a unit other than bytes) is answered 416.
C13_MalformedIs416 ==
  (rq.kind = "video" /\ Decided /\ Malformed(rq.range)) => rq.resp.status = 416

\* C14: a video request whose validated path names no file, and a thumbnail
\* request whose record names an artifact that is no longer there, are
\* answered 404 and do not end as an unhandled error of the handler.
C14_NotFoundIs404 ==
  /\ (rq.kind = "video" /\ rq.pc = "done" /\ ~MissingPath(rq.param) /\ ~rq.safe.threw
        /\ ~StatFinds(rq.safe.abs, fs)) =>
       (rq.resp.status = 404 /\ ~rq.resp.unhandled)
  /\ (rq.kind = "thumb" /\ rq.pc = "done" /\ rq.thumb # NoThumb
        /\ rq.thumb[2] \notin thumbFiles) =>
       (rq.resp.status = 404 /\ ~rq.resp.unhandled)

\* C15: the thumbnail endpoint streams an image only when the table has a row
\* for the path with a non-null thumb and thumbError not set; no row, a null
\* thumb or a set flag give 404; no path parameter or a path rejected by
\* resolveSafePath give 400.
C15_ThumbGating ==
  (rq.kind = "thumb" /\ rq.pc = "done") =>
    LET row == RowFor(index, rq.param.rel)
        denied == ~row.present \/ row.thumb = NoThumb \/ row.thumbError = 1
        invalid == MissingPath(rq.param) \/ resolveSafePath(TargetDir, rq.param.rel).threw
    IN /\ rq.resp.body => (~invalid /\ ~denied)
       /\ invalid => rq.resp.status = 400
       /\ (~invalid /\ denied) => rq.resp.status = 404

\* the thumbnail of a.mp4, indexed with success, is streamed
C15_Witness ==
  /\ rq.kind = "thumb"
  /\ rq.pc = "done"
  /\ rq.param.rel.segs = <<"a.mp4">>
  /\ index["a.mp4"].thumbError = 0
  /\ rq.resp.status = 200
  /\ rq.resp.body
  /\ rq.stream = "open"

\* C19: whenever the client aborts a request, at any moment after the request
\* arrived, the handler comes to its end and the file read stream of the
\* response, if one was opened, is eventually destroyed or closed.
C19_Cancellation ==
  [](rq.aborted => <>(rq.pc = "done" /\ rq.stream # "open"))

\* path p is dir itself or lies below it
Below(dir, p) == Len(p) >= Len(dir) /\ SubSeq(p, 1, Len(dir)) = dir

\* C16: for every root and every string, resolveSafePath throws or returns an
\* absolute normalised path that is the root itself or lies below the root.
C16_Containment ==
  (sp.st = "over" /\ ~sp.result.threw) =>
    /\ Below(sp.dir, sp.result.abs)
    /\ \A i \in 1..Len(sp.result.abs) : sp.result.abs[i] \notin {".", ".."}

\* "../videos/a.mp4" against /srv/videos leaves the root and comes back: it is
\* returned as /srv/videos/a.mp4
C16_Witness ==
  /\ sp.st = "over"
  /\ sp.dir = <<"srv", "videos">>
  /\ sp.relPath = [abs |-> FALSE, segs |-> <<"..", "videos", "a.mp4">>]
  /\ sp.result = [threw |-> FALSE, abs |-> <<"srv", "videos", "a.mp4">>]

\* C17 as stated: resolving an absolute path fails with InvalidPath, also
\* when the path names a location inside the root.
C17_AsStated ==
  (sp.st = "over" /\ sp.relPath.abs) => sp.result.threw

\* C17 amended: resolving an absolute path that names a location outside the
\* root fails with InvalidPath; an absolute path that names the root or a
\* location inside it is returned in normalised form, unless its first
\* segment below the root begins with "..".
C17_AbsoluteInjection ==
  (sp.st = "over" /\ sp.relPath.abs) =>
    LET target == Normalize(<<>>, sp.relPath.segs)
        inside == Below(sp.dir, target)
        dotted == Len(target) > Len(sp.dir) /\ target[Len(sp.dir) + 1] \in DotDotNames
    IN /\ ~inside => sp.result.threw
       /\ (inside /\ ~dotted) => sp.result = [threw |-> FALSE, abs |-> target]
       /\ (inside /\ dotted) => sp.result.threw

\* /srv/a.mp4 against the root /srv/videos fails
C17_Witness ==
  /\ sp.st = "over"
  /\ sp.dir = <<"srv", "videos">>
  /\ sp.relPath = [abs |-> TRUE, segs |-> <<"srv", "a.mp4">>]
  /\ sp.result.threw

\* C18: in a run of the batch tool with --rebuild, every file Discovery
\* observed is put on the work list, whatever its row (up to date, flagged as
\* failed, or none), and the rows of files that are no longer on disk are
\* deleted all the same.
C18_ForceRebuild ==
  (rebuild /\ Scanned) =>
    /\ Scheduled = Seen
    /\ \A p \in Paths : (existingRows[p].present /\ p \notin Seen) => ~index[p].present

\* a run with --rebuild that schedules a file whose row was up to date and
\* deletes the row of a file that has been removed
C18_Witness ==
  /\ rebuild
  /\ Scanned
  /\ \E p \in Scheduled :
       /\ existingRows[p].present
       /\ ~NeedsUpdate(existingRows[p], p \in thumbSeen, Floor(MtimeSeen(p)))
  /\ \E q \in Paths : existingRows[q].present /\ q \notin Seen /\ ~index[q].present

\* C20: when a server process opens a store whose table videos has no
\* thumbError column, its initDb adds the column, every row is kept, and the
\* pass that follows reads thumbError (its promise does not reject).
C20_Migration ==
  [][(ServerRuns /\ pc = "scan" /\ pc' # "scan" /\ schema = "old") =>
       /\ schema' = "new"
       /\ indexingPromise' # "rejected"
       /\ \A p \in Paths : index[p].present => index'[p].present]_vars

\* ------------------------------------------------------ runWithConcurrency
\* the closures that have been called and whose promise has not settled
InFlight == {i \in 1..Len(pool.tasks) : pool.started[i] > 0 /\ i \notin pool.settled}
Others == (1..Len(pool.tasks)) \ pool.hung
Drained(i) == pool.started[i] = 1 /\ i \in pool.settled /\ i \in pool.written

\* C21: at every moment of runWithConcurrency(tasks, limit) the number of tasks
\* started and not yet settled is at most limit, whatever the length of the
\* task list (empty, shorter than the pool, longer than the pool).
C21_BoundedConcurrency == Cardinality(InFlight) <= MAX_CONCURRENCY

\* the pool is full again after a closure has settled, with closures waiting
C21_Witness ==
  /\ Cardinality(InFlight) = MAX_CONCURRENCY
  /\ pool.settled # {}
  /\ Len(pool.queue) > 0

\* C22: when every task settles, no task is started twice, runWithConcurrency
\* resolves only after every task of the list was started once, has settled
\* and has written its record, and it has resolved once no worker runs.
C22_PoolDrain ==
  pool.hung = {} =>
    /\ \A i \in 1..MaxTasks : pool.started[i] <= 1
    /\ pool.promise = "resolved" => \A i \in 1..Len(pool.tasks) : Drained(i)
    /\ (pool.promise # "null" /\ PassOver(pool.worker)) => pool.promise = "resolved"

\* a list longer than the pool has been drained
C22_Witness ==
  /\ pool.hung = {}
  /\ Len(pool.tasks) = MaxTasks
  /\ pool.promise = "resolved"
  /\ \A i \in 1..MaxTasks : Drained(i)

\* C23: when exactly one task never settles, every other task of the list is
\* eventually started once, settles and has its record written.
C23_HungTask ==
  Cardinality(pool.hung) = 1 => <>[](\A i \in Others : Drained(i))

\* the first closure hangs and the other worker has run all the others
C23_Witness ==
  /\ pool.hung = {1}
  /\ Len(pool.tasks) = MaxTasks
  /\ pool.promise = "pending"
  /\ \A i \in Others : Drained(i)

\* ---------------------------------------------------------------- watermark
\* this step is the write of the attempt on p
WrittenNow(p) == ~attempt[p].made /\ attempt'[p].made
\* a pass that scans the tree as it is now would put p on its work list
StaleNext(p) == NeedsUpdate(index'[p], p \in thumbFiles', Floor(fs'[p].mtimeMs))

\* C24 as stated: the record written by an attempt, successful or failed,
\* carries the floored modification time of the scan, and a file modified
\* between the scan and the write is scheduled by the next pass.
C24_AsStated ==
  [][\A p \in Paths : WrittenNow(p) =>
       /\ index'[p].updatedAt = Floor(MtimeSeen(p))
       /\ (fs[p].present /\ fs[p].mtimeMs > MtimeSeen(p)) => StaleNext(p)]_vars

\* C24: the record written by an attempt, successful or failed, carries the
\* floored modification time of the scan; a file whose modification time has
\* reached a later whole millisecond between the scan and the write is
\* scheduled by the next pass.
C24_Watermark ==
  [][\A p \in Paths : WrittenNow(p) =>
       /\ index'[p].updatedAt = Floor(MtimeSeen(p))
       /\ (fs[p].present /\ Floor(fs[p].mtimeMs) > Floor(MtimeSeen(p))) => StaleNext(p)]_vars

\* a failed attempt on a file that reached a later millisecond after the scan
\* has written the time of the scan
C24_Witness ==
  \E p \in Paths :
    /\ attempt[p].made
    /\ ~attempt[p].thumbOk
    /\ fs[p].present
    /\ Floor(fs[p].mtimeMs) > Floor(MtimeSeen(p))
    /\ index[p].updatedAt = Floor(MtimeSeen(p))
    /\ index[p].thumbError = 1

\* ------------------------------------------------------ validation before I/O
\* the handler has passed its validation of the path parameter
Handled == rq.kind # "none" /\ rq.pc \notin {"idle", "start"}
Accepted(param) == ~MissingPath(param) /\ ~resolveSafePath(TargetDir, param.rel).threw

\* C25: in both endpoints every access of a request to the file system or to
\* the Index (ensureIndex included) comes after resolveSafePath has accepted
\* the path parameter; a rejected path is answered with 400 and has caused no
\* access and opened no stream.
C25_ValidationFirst ==
  /\ rq.io # <<>> => Accepted(rq.param)
  /\ (Handled /\ ~Accepted(rq.param)) =>
       /\ rq.pc = "done"
       /\ rq.resp.status = 400
       /\ rq.io = <<>>
       /\ rq.stream = "none"

\* a thumbnail request with a path that leaves the root is answered with 400
C25_Witness ==
  /\ rq.kind = "thumb"
  /\ ~MissingPath(rq.param)
  /\ rq.safe.threw
  /\ rq.pc = "done"
  /\ rq.resp.status = 400
  /\ rq.io = <<>>

\* ------------------------------------------------------------ byte-exact 206
\* the number of bytes fs.createReadStream(path, { start, end }) reads from a
\* file of fileSize bytes: it stops at the end of the file
Delivered(start, end, fileSize) ==
  LET last == IF end < fileSize - 1 THEN end ELSE fileSize - 1
  IN IF last < start THEN 0 ELSE last - start + 1

\* C26: every 206 response advertises a span with start <= end <= size - 1,
\* and its Content-Length is the number of bytes its body delivers, also when
\* the requested end is beyond the end of the file.
C26_ByteExact206 ==
  (rq.kind = "video" /\ rq.pc = "done" /\ rq.resp.status = 206) =>
    LET cr == rq.resp.contentRange
    IN /\ cr.start <= cr.end
       /\ cr.end <= cr.size - 1
       /\ rq.resp.contentLength = Delivered(cr.start, cr.end, rq.fileSize)

\* ------------------------------------------------------ the table after a pass
Recorded == {p \in Paths : index[p].present}

\* C27: after a pass has completed, the paths that have a row are exactly the
\* relative paths discovery observed in that pass: every discovered file has
\* its row, written by a success or by a failure, and no other path has one.
C27_IndexIsDiscovered ==
  (pc = "done" /\ indexingPromise = "resolved") => Recorded = Seen

\* a pass that deleted the row of a vanished file and recorded a failure
C27_Witness ==
  /\ pc = "done"
  /\ indexingPromise = "resolved"
  /\ Recorded = Seen
  /\ \E p \in Paths : existingRows[p].present /\ p \notin Seen
  /\ \E q \in Seen : attempt[q].made /\ index[q].thumbError = 1

\* C28: in every state of the table, a row has thumbError = 1 exactly when
\* its thumb is NULL, a thumb that is not NULL is the thumbnail path derived
\* from the row's own path, and the row of an attempted file carries the flag
\* of that attempt (a success clears the flag, a failure clears the thumb).
C28_FlagMatchesThumb ==
  \A p \in Recorded :
    /\ index[p].thumbError = 1 <=> index[p].thumb = NoThumb
    /\ index[p].thumbError \in {0, 1}
    /\ index[p].thumb # NoThumb => index[p].thumb = getThumbRelPath(p)
    /\ attempt[p].made => (attempt[p].thumbOk <=> index[p].thumbError = 0)

\* a failure on a file whose row held a thumb, and a success on a file whose
\* row held the flag
C28_Witness ==
  /\ \E p \in Paths :
       /\ existingRows[p].present /\ existingRows[p].thumb # NoThumb
       /\ attempt[p].made /\ ~attempt[p].thumbOk
       /\ index[p].thumb = NoThumb /\ index[p].thumbError = 1
  /\ \E q \in Paths :
       /\ existingRows[q].present /\ existingRows[q].thumbError = 1
       /\ attempt[q].made /\ attempt[q].thumbOk
       /\ index[q].thumb = getThumbRelPath(q) /\ index[q].thumbError = 0

\* ------------------------------------------------------ one pass per process
PassSettled == indexingPromise \in {"resolved", "rejected"}

\* C29: in one server process buildIndex is started at most once; once the
\* pass has settled, resolved or rejected, every later ensureIndex call gets
\* that settled promise and starts nothing, and the table is not written
\* again whatever happens to the files.
C29_OnePassPerProcess ==
  [][/\ passesStarted' <= 1
     /\ PassSettled =>
          /\ indexingPromise' = indexingPromise
          /\ passesStarted' = passesStarted
          /\ index' = index
          /\ \A c \in Callers : callers'[c] # callers[c] => reads'[c].at = indexingPromise]_vars

\* a reader called after the pass had rejected and after a file had changed:
\* it got the rejection and no second pass was started
C29_Witness ==
  /\ passesStarted = 1
  /\ indexingPromise = "rejected"
  /\ fsOps > 0
  /\ \E c \in Callers : reads[c].at = "rejected" /\ reads[c].st = "threw"

\* C30: no reader runs its SELECT while the pass is running; a reader that
\* got rows ran its SELECT after the pass had resolved and read the table as
\* the complete pass left it (one row for every discovered file, no other),
\* and a reader whose await threw ran no SELECT.
C30_ReadsWaitForPass ==
  \A c \in Callers :
    /\ reads[c].st \in {"rows", "threw"} => reads[c].pass # "pending"
    /\ reads[c].st = "rows" =>
         /\ reads[c].pass = "resolved"
         /\ pc = "done"
         /\ reads[c].rows = index
         /\ {p \in Paths : reads[c].rows[p].present} = Seen
    /\ reads[c].st = "threw" =>
         /\ reads[c].pass = "rejected"
         /\ reads[c].rows = NoRead.rows

\* a reader that called while the pass was running, a row to delete and a
\* file to index, has read the table of the finished pass
C30_Witness ==
  \E c \in Callers :
    /\ reads[c].at = "pending"
    /\ reads[c].st = "rows"
    /\ reads[c].rows = index
    /\ \E p \in Paths : existingRows[p].present /\ ~reads[c].rows[p].present
    /\ \E q \in Paths : attempt[q].made /\ reads[c].rows[q].present

\* ---------------------------------------------------- tool and server agree
BothOver == pc = "done" /\ eq.pc = "done"
ToolScheduled == {eq.tasks[i].rel : i \in 1..Len(eq.tasks)}
\* the rows of the starting table that a run has deleted
Deleted(final) == {p \in Paths : eq.start[p].present /\ ~final[p].present}

\* C31: from the same table and the same tree, with the same outcome of every
\* external call, the server's buildIndex and the batch tool without --rebuild
\* schedule the same files, delete the same rows and leave the same table.
C31_ToolEqualsServer ==
  BothOver =>
    /\ Scheduled = ToolScheduled
    /\ Deleted(index) = Deleted(eq.index)
    /\ index = eq.index
    /\ schema = eq.schema

====
